---- MODULE Spec2Model ----
(***************************************************************************)
(* Model of the SmartOS metadata client (package mdata, cmd/main.go).      *)
(*                                                                         *)
(* Text is a sequence of byte values (0..255); the comments beside the     *)
(* literals give the Go string each one stands for.                        *)
(***************************************************************************)
EXTENDS Integers, Sequences, FiniteSets, TLC

\* ------------------------------------------------------------------ bytes

SP == 32    \* ' '
NL == 10    \* '\n'
CR == 13    \* '\r'
TAB == 9    \* '\t'
PLUS == 43  \* '+'
MINUS == 45 \* '-'
USCORE == 95 \* '_'
PAD == 61   \* '=', base64.StdPadding

IsDigit(c) == c >= 48 /\ c <= 57

\* A prefix test that looks at the length only.
HasPrefixOfLength(s, p) == Len(s) >= Len(p)

\* strings.HasPrefix
HasPrefix(s, p) == Len(s) >= Len(p) /\ SubSeq(s, 1, Len(p)) = p

\* strings.TrimPrefix
TrimPrefix(s, p) == IF HasPrefix(s, p) THEN SubSeq(s, Len(p) + 1, Len(s)) ELSE s

\* strings.TrimSuffix
TrimSuffix(s, p) ==
    IF Len(s) >= Len(p) /\ SubSeq(s, Len(s) - Len(p) + 1, Len(s)) = p
    THEN SubSeq(s, 1, Len(s) - Len(p))
    ELSE s

\* Index of the first occurrence of byte c in s, 0 when there is none.
RECURSIVE IndexFrom(_, _, _)
IndexFrom(s, c, i) ==
    IF i > Len(s) THEN 0
    ELSE IF s[i] = c THEN i
    ELSE IndexFrom(s, c, i + 1)

IndexByte(s, c) == IndexFrom(s, c, 1)

\* strings.Split(s, " "): the fields between single separators, empty fields kept.
RECURSIVE Split(_, _)
Split(s, sep) ==
    LET i == IndexByte(s, sep)
    IN  IF i = 0 THEN <<s>>
        ELSE <<SubSeq(s, 1, i - 1)>> \o Split(SubSeq(s, i + 1, Len(s)), sep)

\* strings.Join(parts, " ")
RECURSIVE Join(_, _)
Join(parts, sep) ==
    IF Len(parts) = 0 THEN <<>>
    ELSE IF Len(parts) = 1 THEN parts[1]
    ELSE parts[1] \o <<sep>> \o Join(Tail(parts), sep)

\* strings.ToUpper on ASCII text
RECURSIVE ToUpper(_)
ToUpper(s) ==
    IF Len(s) = 0 THEN <<>>
    ELSE <<IF s[1] >= 97 /\ s[1] <= 122 THEN s[1] - 32 ELSE s[1]>> \o ToUpper(Tail(s))

\* ------------------------------------------------------------------ hex

\* "0123456789abcdef"
HexDigits == <<48, 49, 50, 51, 52, 53, 54, 55, 56, 57, 97, 98, 99, 100, 101, 102>>

\* hex.EncodeToString
RECURSIVE HexEncodeToString(_)
HexEncodeToString(bytes) ==
    IF Len(bytes) = 0 THEN <<>>
    ELSE <<HexDigits[(bytes[1] \div 16) + 1], HexDigits[(bytes[1] % 16) + 1]>>
            \o HexEncodeToString(Tail(bytes))

\* ------------------------------------------------------------------ CRC-32
\* A 32-bit value is kept as 8 nibbles, most significant first, so that no
\* arithmetic leaves the 32 bits; XOR is taken nibble by nibble.

RECURSIVE XorBits(_, _, _)
XorBits(a, b, n) ==
    IF n = 0 THEN 0
    ELSE ((a + b) % 2) + 2 * XorBits(a \div 2, b \div 2, n - 1)

NibbleXor == [a \in 0..15 |-> [b \in 0..15 |-> XorBits(a, b, 4)]]

Xor32(x, y) ==
    <<NibbleXor[x[1]][y[1]], NibbleXor[x[2]][y[2]], NibbleXor[x[3]][y[3]],
      NibbleXor[x[4]][y[4]], NibbleXor[x[5]][y[5]], NibbleXor[x[6]][y[6]],
      NibbleXor[x[7]][y[7]], NibbleXor[x[8]][y[8]]>>

\* x >> 4
Shr4(x) == <<0>> \o SubSeq(x, 1, 7)

\* x >> 1
Shr1(x) ==
    <<x[1] \div 2,
      (x[2] \div 2) + 8 * (x[1] % 2), (x[3] \div 2) + 8 * (x[2] % 2),
      (x[4] \div 2) + 8 * (x[3] % 2), (x[5] \div 2) + 8 * (x[4] % 2),
      (x[6] \div 2) + 8 * (x[5] % 2), (x[7] \div 2) + 8 * (x[6] % 2),
      (x[8] \div 2) + 8 * (x[7] % 2)>>

\* 0xEDB88320
CRCPolynomial == <<14, 13, 11, 8, 8, 3, 2, 0>>

\* One bit of the reflected CRC: shift right, and XOR the polynomial in when the
\* bit shifted out was set (crc32.simpleMakeTable's inner loop).
CrcBit(x) == IF x[8] % 2 = 1 THEN Xor32(Shr1(x), CRCPolynomial) ELSE Shr1(x)

\* crc32.MakeTable(CRCPolynomial), for four bits of input at a time.
CrcTable == [n \in 0..15 |-> CrcBit(CrcBit(CrcBit(CrcBit(<<0, 0, 0, 0, 0, 0, 0, n>>))))]

CrcNibble(crc, n) == Xor32(CrcTable[NibbleXor[crc[8]][n]], Shr4(crc))

CrcByte(crc, b) == CrcNibble(CrcNibble(crc, b % 16), b \div 16)

RECURSIVE CrcUpdate(_, _, _)
CrcUpdate(crc, s, i) ==
    IF i > Len(s) THEN crc
    ELSE LET next == CrcByte(crc, s[i])
         IN  \* the register stays 8 nibbles wide
             IF Len(next) = 8 THEN CrcUpdate(next, s, i + 1) ELSE next

AllOnes == <<15, 15, 15, 15, 15, 15, 15, 15>>

\* crc32.Checksum(data, table): the register starts at and is finally XORed
\* with 0xFFFFFFFF.
Checksum(data) == Xor32(CrcUpdate(AllOnes, data, 1), AllOnes)

\* fmt.Sprintf("%08x", crc)
Sprintf08x(crc) ==
    <<HexDigits[crc[1] + 1], HexDigits[crc[2] + 1], HexDigits[crc[3] + 1],
      HexDigits[crc[4] + 1], HexDigits[crc[5] + 1], HexDigits[crc[6] + 1],
      HexDigits[crc[7] + 1], HexDigits[crc[8] + 1]>>

\* ------------------------------------------------------------------ base64

\* base64.StdEncoding's alphabet: A-Z a-z 0-9 + /
B64Alphabet ==
    <<65, 66, 67, 68, 69, 70, 71, 72, 73, 74, 75, 76, 77, 78, 79, 80, 81, 82, 83, 84, 85,
      86, 87, 88, 89, 90, 97, 98, 99, 100, 101, 102, 103, 104, 105, 106, 107, 108, 109,
      110, 111, 112, 113, 114, 115, 116, 117, 118, 119, 120, 121, 122, 48, 49, 50, 51, 52,
      53, 54, 55, 56, 57, 43, 47>>

\* The decode map: the 6-bit value of an alphabet byte, -1 for any other byte.
B64Value(c) ==
    IF c >= 65 /\ c <= 90 THEN c - 65
    ELSE IF c >= 97 /\ c <= 122 THEN c - 71
    ELSE IF c >= 48 /\ c <= 57 THEN c + 4
    ELSE IF c = 43 THEN 62
    ELSE IF c = 47 THEN 63
    ELSE -1

\* EncodeToString as base64.RawStdEncoding would do it: no padding.
RECURSIVE B64EncodeRaw(_)
B64EncodeRaw(src) ==
    IF Len(src) = 0 THEN <<>>
    ELSE IF Len(src) = 1 THEN
        <<B64Alphabet[(src[1] \div 4) + 1], B64Alphabet[((src[1] % 4) * 16) + 1]>>
    ELSE IF Len(src) = 2 THEN
        <<B64Alphabet[(src[1] \div 4) + 1],
          B64Alphabet[((src[1] % 4) * 16 + (src[2] \div 16)) + 1],
          B64Alphabet[((src[2] % 16) * 4) + 1]>>
    ELSE
        <<B64Alphabet[(src[1] \div 4) + 1],
          B64Alphabet[((src[1] % 4) * 16 + (src[2] \div 16)) + 1],
          B64Alphabet[((src[2] % 16) * 4 + (src[3] \div 64)) + 1],
          B64Alphabet[(src[3] % 64) + 1]>> \o B64EncodeRaw(SubSeq(src, 4, Len(src)))

\* An encoder that ends its output with a line break, as encoders that wrap
\* their output in lines do.
B64EncodeLines(src) == IF Len(src) = 0 THEN <<>> ELSE B64EncodeRaw(src) \o <<NL>>

\* base64.StdEncoding.EncodeToString: three bytes to four characters, the last
\* group padded with '='.
RECURSIVE B64Encode(_)
B64Encode(src) ==
    IF Len(src) = 0 THEN <<>>
    ELSE IF Len(src) = 1 THEN
        <<B64Alphabet[(src[1] \div 4) + 1], B64Alphabet[((src[1] % 4) * 16) + 1], PAD, PAD>>
    ELSE IF Len(src) = 2 THEN
        <<B64Alphabet[(src[1] \div 4) + 1],
          B64Alphabet[((src[1] % 4) * 16 + (src[2] \div 16)) + 1],
          B64Alphabet[((src[2] % 16) * 4) + 1], PAD>>
    ELSE
        <<B64Alphabet[(src[1] \div 4) + 1],
          B64Alphabet[((src[1] % 4) * 16 + (src[2] \div 16)) + 1],
          B64Alphabet[((src[2] % 16) * 4 + (src[3] \div 64)) + 1],
          B64Alphabet[(src[3] % 64) + 1]>> \o B64Encode(SubSeq(src, 4, Len(src)))

\* The decoder skips '\r' and '\n' wherever they stand.
RECURSIVE StripNewlines(_)
StripNewlines(s) ==
    IF Len(s) = 0 THEN <<>>
    ELSE IF s[1] = CR \/ s[1] = NL THEN StripNewlines(Tail(s))
    ELSE <<s[1]>> \o StripNewlines(Tail(s))

\* The bytes of a quantum of j decoded characters v (6-bit values): j - 1 bytes;
\* the bits left over in the last character are dropped unchecked (the
\* encoding is not Strict()).
QuantumBytes(v, j) ==
    LET b1 == v[1] * 4 + (v[2] \div 16)
        b2 == (v[2] % 16) * 16 + (IF j >= 3 THEN v[3] \div 4 ELSE 0)
        b3 == (IF j >= 3 THEN (v[3] % 4) * 64 ELSE 0) + (IF j >= 4 THEN v[4] ELSE 0)
    IN  IF j = 2 THEN <<b1>>
        ELSE IF j = 3 THEN <<b1, b2>>
        ELSE <<b1, b2, b3>>

\* Encoding.decodeQuantum, applied until the input ends, on input without
\* newlines.  Result: [ok, bytes].
RECURSIVE B64DecodeFrom(_, _)
B64DecodeFrom(s, acc) ==
    IF Len(s) = 0 THEN [ok |-> TRUE, bytes |-> acc]
    ELSE
        LET n == IF Len(s) < 4 THEN Len(s) ELSE 4
            \* number of leading alphabet characters among the first four
            j == IF B64Value(s[1]) < 0 THEN 0
                 ELSE IF n < 2 \/ B64Value(s[2]) < 0 THEN 1
                 ELSE IF n < 3 \/ B64Value(s[3]) < 0 THEN 2
                 ELSE IF n < 4 \/ B64Value(s[4]) < 0 THEN 3
                 ELSE 4
            v == <<B64Value(s[1]), B64Value(s[IF n < 2 THEN 1 ELSE 2]),
                   B64Value(s[IF n < 3 THEN 1 ELSE 3]), B64Value(s[IF n < 4 THEN 1 ELSE 4])>>
        IN  IF j = 4 THEN B64DecodeFrom(SubSeq(s, 5, Len(s)), acc \o QuantumBytes(v, 4))
            \* the input ended inside a quantum: padding is required
            ELSE IF Len(s) = j THEN [ok |-> FALSE, bytes |-> <<>>]
            \* a byte that is neither of the alphabet nor padding
            ELSE IF s[j + 1] # PAD THEN [ok |-> FALSE, bytes |-> <<>>]
            \* padding after fewer than two characters
            ELSE IF j < 2 THEN [ok |-> FALSE, bytes |-> <<>>]
            \* "xx==": the second '=' must follow, and nothing after it
            ELSE IF j = 2 THEN
                IF Len(s) = 4 /\ s[4] = PAD
                THEN [ok |-> TRUE, bytes |-> acc \o QuantumBytes(v, 2)]
                ELSE [ok |-> FALSE, bytes |-> <<>>]
            \* "xxx=": nothing may follow the padding
            ELSE IF Len(s) = 4
                THEN [ok |-> TRUE, bytes |-> acc \o QuantumBytes(v, 3)]
                ELSE [ok |-> FALSE, bytes |-> <<>>]

\* base64.StdEncoding.DecodeString
B64Decode(s) == B64DecodeFrom(StripNewlines(s), <<>>)

\* ------------------------------------------------------------------ fmt

\* fmt.Sprintf("%d", n)
RECURSIVE DigitsOf(_)
DigitsOf(n) == IF n < 10 THEN <<48 + n>> ELSE DigitsOf(n \div 10) \o <<48 + (n % 10)>>

SprintfD(n) == IF n < 0 THEN <<MINUS>> \o DigitsOf(0 - n) ELSE DigitsOf(n)

\* ss.SkipSpace with nlIsSpace false: the input after its leading blanks; a
\* newline met there is an error ("unexpected newline").
RECURSIVE SkipSpace(_)
SkipSpace(s) ==
    IF Len(s) = 0 THEN [ok |-> TRUE, rest |-> s]
    ELSE IF s[1] = CR /\ Len(s) >= 2 /\ s[2] = NL THEN SkipSpace(Tail(s))
    ELSE IF s[1] = NL THEN [ok |-> FALSE, rest |-> s]
    ELSE IF s[1] = SP \/ s[1] = TAB \/ s[1] = CR THEN SkipSpace(Tail(s))
    ELSE [ok |-> TRUE, rest |-> s]

\* The longest prefix of s made of the bytes scanNumber accepts for %d,
\* "0123456789_".
RECURSIVE NumberRun(_)
NumberRun(s) ==
    IF Len(s) > 0 /\ (IsDigit(s[1]) \/ s[1] = USCORE)
    THEN <<s[1]>> \o NumberRun(Tail(s))
    ELSE <<>>

RECURSIVE DecimalValue(_)
DecimalValue(d) ==
    IF Len(d) = 0 THEN 0 ELSE 10 * DecimalValue(SubSeq(d, 1, Len(d) - 1)) + (d[Len(d)] - 48)

\* fmt.Sscanf(s, "%d", &n): blanks are skipped, an optional sign and the run
\* of digits that follows are converted by strconv.ParseInt(tok, 10, 64) (which
\* refuses '_'), and whatever follows the number is left unread.
\* Result: [ok, n].
SscanfD(s) ==
    LET sk == SkipSpace(s)
        t == sk.rest
        signed == Len(t) > 0 /\ (t[1] = PLUS \/ t[1] = MINUS)
        u == IF signed THEN Tail(t) ELSE t
        run == NumberRun(u)
    IN  IF ~sk.ok \/ Len(t) = 0 \/ Len(run) = 0 THEN [ok |-> FALSE, n |-> 0]
        ELSE IF \E i \in 1..Len(run) : run[i] = USCORE THEN [ok |-> FALSE, n |-> 0]
        ELSE [ok |-> TRUE,
              n |-> IF signed /\ t[1] = MINUS THEN 0 - DecimalValue(run) ELSE DecimalValue(run)]

\* ------------------------------------------------------------------ frame

\* "V2 "
ProtocolPrefix == <<86, 50, 32>>
\* "NEGOTIATE V2\n"
NegotiationReq == <<78, 69, 71, 79, 84, 73, 65, 84, 69, 32, 86, 50, 10>>
\* "V2_OK\n"
NegotiationResp == <<86, 50, 95, 79, 75, 10>>

\* frame.buildBodyString
buildBodyString(f) ==
    LET parts == <<f.RequestID, f.Code>>
    IN  Join(IF Len(f.Payload) > 0 THEN Append(parts, B64Encode(f.Payload)) ELSE parts, SP)

\* frame.updateBodyMetadata
updateBodyMetadata(f) ==
    LET body == buildBodyString(f)
    IN  [f EXCEPT !.BodyLength = Len(body), !.BodyChecksum = Sprintf08x(Checksum(body))]

\* newFrame, given the four bytes rand.Read produced
newFrame(code, payload, randBytes) ==
    updateBodyMetadata([RequestID |-> HexEncodeToString(randBytes),
                        Code |-> ToUpper(code),
                        Payload |-> payload,
                        BodyLength |-> 0,
                        BodyChecksum |-> <<>>])

\* frame.Encode
Encode(f) ==
    ProtocolPrefix \o SprintfD(f.BodyLength) \o <<SP>> \o f.BodyChecksum \o <<SP>>
        \o buildBodyString(f) \o <<NL>>

NoFrame ==
    [RequestID |-> <<>>, Code |-> <<>>, Payload |-> <<>>, BodyLength |-> 0,
     BodyChecksum |-> <<>>]

ParseError(msg) == [err |-> msg, frame |-> NoFrame]

\* ParseFrame.  Result: [err, frame], err = "nil" on success.
ParseFrame(data) ==
    IF ~HasPrefix(data, ProtocolPrefix) THEN ParseError("invalid frame prefix")
    ELSE
        LET trimmed == TrimPrefix(TrimSuffix(data, <<NL>>), ProtocolPrefix)
            parts == Split(trimmed, SP)
        IN  IF Len(parts) < 3 THEN ParseError("invalid frame format")
            ELSE
                LET scanned == SscanfD(parts[1])
                    checksum == parts[2]
                    bodyParts == SubSeq(parts, 3, Len(parts))
                IN  IF ~scanned.ok THEN ParseError("invalid body length")
                    ELSE IF Len(checksum) # 8 THEN ParseError("invalid checksum format")
                    ELSE IF Len(bodyParts) < 2 THEN ParseError("invalid body format")
                    ELSE
                        LET decoded == IF Len(bodyParts) > 2 THEN B64Decode(bodyParts[3])
                                       ELSE [ok |-> TRUE, bytes |-> <<>>]
                            f == [RequestID |-> bodyParts[1],
                                  Code |-> bodyParts[2],
                                  Payload |-> decoded.bytes,
                                  BodyLength |-> scanned.n,
                                  BodyChecksum |-> checksum]
                        IN  IF ~decoded.ok THEN ParseError("invalid payload encoding")
                            ELSE IF Sprintf08x(Checksum(buildBodyString(f))) # checksum
                                THEN ParseError("checksum mismatch")
                            ELSE [err |-> "nil", frame |-> f]

\* ------------------------------------------------------------------ state

VARIABLES
    \* Frame codec exercised on its own: the inputs drawn, the frame newFrame
    \* built from them, the wire text handed to ParseFrame and its result.
    cStage, cIn, cFrame, cLine, cRes,
    cKind,       \* how the text handed to ParseFrame was made from the encoded line
    \* The client and its caller.
    pc,          \* where the caller stands
    conn,        \* the Conn: "none", "open" or "closed"
    closes,      \* calls of conn.Close()
    client,      \* what NewMetadataClient returned: "none" yet, "ok" or "err"
    newErr,      \* the error NewMetadataClient returned
    werr,        \* bufio.Writer's sticky error
    rbuf,        \* bufio.Reader: bytes fetched from the Conn and not yet consumed
    kbuf,        \* bytes the peer has sent that no conn.Read has returned yet
    unanswered,  \* peer: the lines it received and has not answered: [neg, rid]
    negWrites,   \* writes of NegotiationReq accepted by the Conn
    negRead,     \* the line Negotiate read
    frameWrites, \* request frames accepted by the Conn
    lateIO,      \* a read or write was issued on a Conn that was not open
    ncalls,      \* calls of Get, Keys, Delete, Put started on the client
    deadline,    \* the Conn's read deadline: "none", "armed" (ahead) or "passed"
    call         \* the current (or last) call

codecVars == <<cStage, cIn, cFrame, cLine, cRes, cKind>>
clientVars ==
    <<pc, conn, closes, client, newErr, werr, rbuf, kbuf, unanswered,
      negWrites, negRead, frameWrites, lateIO, ncalls, deadline, call>>
vars == <<codecVars, clientVars>>

\* ------------------------------------------------------------------ bounds

MaxCodeLen == 2
MaxPayloadLen == 3
MaxCalls == 2

\* All byte strings over alphabet of length at most n.
RECURSIVE StringsUpTo(_, _)
StringsUpTo(alphabet, n) ==
    IF n = 0 THEN {<<>>}
    ELSE LET shorter == StringsUpTo(alphabet, n - 1)
         IN  shorter \cup {Append(t, c) : t \in shorter, c \in alphabet}

\* Codes: tokens without space or newline, in either case ("G", "p").
CodeInputs == StringsUpTo({71, 112}, MaxCodeLen) \ {<<>>}
\* Codes that are no tokens, which newFrame takes as it takes any string:
\* "G\nX" and "g p".
OtherCodeInputs == {<<71, NL, 88>>, <<103, SP, 112>>}
\* Payloads: any bytes, newline included ("A", "\n").
PayloadInputs == StringsUpTo({65, NL}, MaxPayloadLen)
\* What rand.Read may put in the four bytes.
RandInputs == {<<0, 0, 0, 42>>, <<222, 173, 190, 239>>}
\* What rand.Read may do: fill the bytes, or fail.  [ok, bytes]
RandOutcomes ==
    {[ok |-> TRUE, bytes |-> b] : b \in RandInputs} \cup {[ok |-> FALSE, bytes |-> <<>>]}
\* The bytes a corrupted character may turn into: 'R', 'h', '!', ' ', '='.
FlipBytes == {82, 104, 33, SP, PAD}

\* ------------------------------------------------------------------ codec runs

NoInput == [code |-> <<>>, payload |-> <<>>, rand |-> <<0, 0, 0, 0>>]
NoParse == [err |-> "none", frame |-> NoFrame]

CodecInit ==
    /\ cStage = "input"
    /\ cIn \in [code : CodeInputs \cup OtherCodeInputs, payload : PayloadInputs,
                 rand : RandInputs]
    /\ cFrame = NoFrame
    /\ cLine = <<>>
    /\ cRes = NoParse
    /\ cKind = "none"

\* newFrame(code, payload)
CodecConstruct ==
    /\ cStage = "input"
    /\ cFrame' = newFrame(cIn.code, cIn.payload, cIn.rand)
    /\ cStage' = "built"
    /\ UNCHANGED <<cIn, cLine, cRes, cKind>>
    /\ UNCHANGED clientVars

\* f.Encode()
CodecEncode ==
    /\ cStage = "built"
    /\ cLine' = Encode(cFrame)
    /\ cStage' = "encoded"
    /\ UNCHANGED <<cIn, cFrame, cRes, cKind>>
    /\ UNCHANGED clientVars

\* ParseFrame on the text Encode produced
CodecDecode ==
    /\ cStage = "encoded"
    /\ cRes' = ParseFrame(cLine)
    /\ cStage' = "decoded"
    /\ cKind' = "encoded"
    /\ UNCHANGED <<cIn, cFrame, cLine>>
    /\ UNCHANGED clientVars

\* Where the body (RequestID, Code, payload text and the spaces between them)
\* starts in a wire line: after "V2 ", the length, a space, the checksum and a
\* space.
BodyStart(f) == Len(ProtocolPrefix) + Len(SprintfD(f.BodyLength)) + 1 + Len(f.BodyChecksum) + 2

\* ParseFrame on that text with one character of its body replaced
CodecDecodeFlipped ==
    /\ cStage = "encoded"
    /\ \E i \in BodyStart(cFrame)..(Len(cLine) - 1), c \in FlipBytes :
        /\ cLine[i] # c
        /\ cLine' = [cLine EXCEPT ![i] = c]
        /\ cRes' = ParseFrame(cLine')
    /\ cStage' = "flipped"
    /\ cKind' = "flipped"
    /\ UNCHANGED <<cIn, cFrame>>
    /\ UNCHANGED clientVars

\* ------------------------------------------------------------------ client

\* "sdc:"
ReservedPrefix == <<115, 100, 99, 58>>
\* "SUCCESS"
SuccessCode == <<83, 85, 67, 67, 69, 83, 83>>
\* "NOTFOUND"
NotFoundCode == <<78, 79, 84, 70, 79, 85, 78, 68>>
\* "GET", "KEYS", "DELETE", "PUT"
GetCode == <<71, 69, 84>>
KeysCode == <<75, 69, 89, 83>>
DeleteCode == <<68, 69, 76, 69, 84, 69>>
PutCode == <<80, 85, 84>>

\* Keys and values the caller passes: "k", "sdc:x"; "a b".
KeyInputs == {<<107>>, <<115, 100, 99, 58, 120>>}
ValueInputs == {<<97, 32, 98>>}

NoResult == [branch |-> "none", payload |-> <<>>, err |-> <<>>]

\* A call: the operation and its arguments, what it did on the bufio.ReadWriter
\* (frames handed to WriteString, Flush calls, ReadString calls), the bytes the
\* Conn accepted, the text ReadString returned, and what the call returned;
\* prev is how the call before it on this client ended.
NoCall ==
    [op |-> "none", key |-> <<>>, value |-> <<>>, frames |-> 0, flushes |-> 0,
     reads |-> 0, sent |-> <<>>, line |-> <<>>, done |-> FALSE, res |-> NoResult,
     prev |-> "none"]

ClientInit ==
    /\ pc = "new"
    /\ conn = "none"
    /\ closes = 0
    /\ client = "none"
    /\ newErr = "none"
    /\ werr = FALSE
    /\ rbuf = <<>>
    /\ kbuf = <<>>
    /\ unanswered = <<>>
    /\ negWrites = 0
    /\ negRead = <<>>
    /\ frameWrites = 0
    /\ lateIO = FALSE
    /\ ncalls = 0
    /\ deadline = "none"
    /\ call = NoCall

\* A Close that leaves the Conn open.
ConnCloseLeak == UNCHANGED <<conn, closes>>

\* conn.Close()
ConnClose ==
    /\ conn' = "closed"
    /\ closes' = closes + 1

\* NewMetadataClient returns (nil, err).
NewFails(msg) ==
    /\ client' = "err"
    /\ newErr' = msg
    /\ pc' = "done"

\* conn.SetReadTimeout(config.SocketConfig.Timeout) as NewMetadataClient calls
\* it, once, on the socket just dialled: netConnWrapper sets the read deadline
\* of the net.Conn to time.Now().Add(timeout), one instant for all the reads to
\* come.  The serial port gets no deadline: its reads time out one by one
\* (Config.ReadTimeout), and serialConnWrapper.SetReadTimeout does nothing.
SetReadTimeout(transport) == IF transport = "socket" THEN "armed" ELSE "none"

\* What a conn.Read can fetch of the bytes kb waiting in the Conn: nothing once
\* the read deadline has passed (the read fails at once with a timeout).
Fetchable(kb, dl) == IF dl = "passed" THEN <<>> ELSE kb

\* The bytes left waiting in the Conn after ReadString returned r.
LeftInConn(kb, r, dl) == IF dl = "passed" THEN kb ELSE r.kbuf

\* The deadline after ReadString returned r: a read of a socket that failed
\* has run into the deadline, and the deadline stays where it was set.
DeadlineAfter(dl, r) == IF dl = "armed" /\ ~r.ok THEN "passed" ELSE dl

\* NewMetadataClient, up to the bufio.ReadWriter: the port is opened or the
\* socket dialled (config.Transport says which), and on a socket the read
\* timeout is set: opening may fail, and so may SetReadTimeout on the socket
\* just dialled.
Open ==
    /\ pc = "new"
    /\ \/ \E transport \in {"serial", "socket"} :
            /\ NewFails(IF transport = "serial" THEN "failed to open serial port"
                        ELSE "failed to dial")
            /\ UNCHANGED <<conn, closes, deadline>>
       \/ /\ ConnClose
          /\ NewFails("failed to set read timeout")
          /\ UNCHANGED deadline
       \/ \E transport \in {"serial", "socket"} :
            /\ conn' = "open"
            /\ deadline' = SetReadTimeout(transport)
            /\ pc' = "opened"
            /\ UNCHANGED <<closes, client, newErr>>
    /\ UNCHANGED <<werr, rbuf, kbuf, unanswered, negWrites, negRead,
                   frameWrites, lateIO, ncalls, call>>
    /\ UNCHANGED codecVars

\* A failure path that returns the error and leaves the Conn open.
NegotiationFailedLeak(msg) ==
    /\ NewFails(msg)
    /\ UNCHANGED <<conn, closes>>

\* NewMetadataClient when Negotiate returned an error or false: the Conn is
\* closed and the error returned.
NegotiationFailed(msg) ==
    /\ ConnClose
    /\ NewFails(msg)

\* What conn.Write may do with text: accept it all, or fail having accepted
\* none or the first half of it.  [ok, written]
WriteOutcomes(text) ==
    {[ok |-> TRUE, written |-> text],
     [ok |-> FALSE, written |-> <<>>],
     [ok |-> FALSE, written |-> SubSeq(text, 1, Len(text) \div 2)]}

\* Negotiate, to its read: WriteString(NegotiationReq) and Flush.  A failed
\* flush ends Negotiate with an error, and NewMetadataClient closes the Conn.
NegotiateSend ==
    /\ pc = "opened"
    /\ lateIO' = (lateIO \/ conn # "open")
    /\ \E w \in WriteOutcomes(NegotiationReq) :
        IF w.ok
        THEN /\ negWrites' = negWrites + 1
             /\ unanswered' = Append(unanswered, [neg |-> TRUE, rid |-> <<>>])
             /\ pc' = "negotiate"
             /\ UNCHANGED <<conn, closes, client, newErr, werr>>
        ELSE /\ werr' = TRUE
             /\ NegotiationFailed("protocol negotiation failed: failed to flush negotiation")
             /\ UNCHANGED <<negWrites, unanswered>>
    /\ UNCHANGED <<rbuf, kbuf, negRead, frameWrites, ncalls, call>>
    /\ UNCHANGED deadline
    /\ UNCHANGED codecVars

\* A read that hands back the first line and drops whatever else it fetched.
ReadStringDropRest(rb, kb) ==
    LET all == rb \o kb
        j == IndexByte(all, NL)
    IN  IF j > 0
        THEN [ok |-> TRUE, line |-> SubSeq(all, 1, j), rbuf |-> <<>>, kbuf |-> <<>>,
              fetched |-> TRUE]
        ELSE [ok |-> FALSE, line |-> all, rbuf |-> <<>>, kbuf |-> <<>>, fetched |-> TRUE]

\* bufio.Reader.ReadString('\n') on buffer rb with kb waiting in the Conn: the
\* text through the first newline.  A newline already buffered is served without
\* reading the Conn; otherwise the Conn is read until one arrives, and a read
\* that fails first (a timeout, the end of the stream) returns what was read,
\* without a newline, and the error.  [ok, line, rbuf, kbuf, fetched]
ReadString(rb, kb) ==
    LET i == IndexByte(rb, NL)
        all == rb \o kb
        j == IndexByte(all, NL)
    IN  IF i > 0
        THEN [ok |-> TRUE, line |-> SubSeq(rb, 1, i), rbuf |-> SubSeq(rb, i + 1, Len(rb)),
              kbuf |-> kb, fetched |-> FALSE]
        ELSE IF j > 0
        THEN [ok |-> TRUE, line |-> SubSeq(all, 1, j), rbuf |-> SubSeq(all, j + 1, Len(all)),
              kbuf |-> <<>>, fetched |-> TRUE]
        ELSE [ok |-> FALSE, line |-> all, rbuf |-> <<>>, kbuf |-> <<>>, fetched |-> TRUE]

\* A verdict that looks only at how the line starts.
SupportedByPrefix(resp) == HasPrefix(resp, <<86, 50, 95, 79, 75>>)

\* A verdict that ignores case (strings.EqualFold).
SupportedIgnoringCase(resp) == ToUpper(resp) = NegotiationResp

\* Negotiate's verdict on the line it read
Supported(resp) == resp = NegotiationResp

\* Negotiate, from its read, and what NewMetadataClient does with the result.
NegotiateRecv ==
    /\ pc = "negotiate"
    /\ LET r == ReadString(rbuf, Fetchable(kbuf, deadline))
       IN  /\ rbuf' = r.rbuf
           /\ kbuf' = LeftInConn(kbuf, r, deadline)
           /\ deadline' = DeadlineAfter(deadline, r)
           /\ lateIO' = (lateIO \/ (r.fetched /\ conn # "open"))
           /\ negRead' = r.line
           /\ IF r.ok /\ Supported(r.line)
              THEN /\ client' = "ok"
                   /\ pc' = "ready"
                   /\ UNCHANGED <<conn, closes, newErr>>
              ELSE NegotiationFailed(
                        IF r.ok THEN "server does not support Version 2 protocol"
                        ELSE "protocol negotiation failed: failed to read negotiation response")
    /\ UNCHANGED <<werr, unanswered, negWrites, frameWrites, ncalls, call>>
    /\ UNCHANGED codecVars

\* The reply texts a peer may give to the negotiation request:
\* "V2_OK\n", "v2_ok\n", "V2_OK\r\n", "V2_OK" and "NOPE\n".
NegReplies ==
    {NegotiationResp,
     <<118, 50, 95, 111, 107, 10>>,
     <<86, 50, 95, 79, 75, 13, 10>>,
     <<86, 50, 95, 79, 75>>,
     <<78, 79, 80, 69, 10>>}

\* The response line a peer builds for the request with RequestID rid.
ResponseLine(rid, code, payload) ==
    Encode(updateBodyMetadata([RequestID |-> rid, Code |-> code, Payload |-> payload,
                               BodyLength |-> 0, BodyChecksum |-> <<>>]))

ReplyKinds ==
    {"value", "empty", "notfound", "lower", "badsum", "noprefix", "partial", "resent"}

\* The bytes a peer may send in answer: a SUCCESS frame with payload "A" or
\* with none, a NOTFOUND frame, a frame with code "success", a frame whose
\* checksum field is wrong, a line that is no frame ("NOPE\n"), the start of a
\* frame with no end, and a frame whose checksum field is wrong followed at once
\* by the same frame sent again intact.
Reply(rid, kind) ==
    LET good == ResponseLine(rid, SuccessCode, <<65>>)
        bad == [good EXCEPT ![7] = IF good[7] = 48 THEN 49 ELSE 48]
    IN  CASE kind = "value" -> good
          [] kind = "empty" -> ResponseLine(rid, SuccessCode, <<>>)
          [] kind = "notfound" -> ResponseLine(rid, NotFoundCode, <<>>)
          [] kind = "lower" -> ResponseLine(rid, <<115, 117, 99, 99, 101, 115, 115>>, <<65>>)
          [] kind = "badsum" -> bad
          [] kind = "resent" -> bad \o good
          [] kind = "noprefix" -> <<78, 79, 80, 69, 10>>
          [] kind = "partial" -> SubSeq(good, 1, 9)

\* The kinds of reply to a request whose call has already returned (its read
\* failed before the reply came).
LateReplyKinds == {"value"}

\* The peer answers the oldest line it has not answered: while the client waits
\* for that answer, or late.  What a reply holds matters to the client only if
\* the client can still fetch it: once the read deadline has passed, one kind of
\* reply stands for all.
PeerReply ==
    /\ conn = "open"
    /\ Len(unanswered) > 0
    /\ \E text \in (IF Head(unanswered).neg THEN NegReplies
                    ELSE {Reply(Head(unanswered).rid, k) :
                            k \in IF pc = "await" /\ Len(unanswered) = 1
                                        /\ deadline # "passed"
                                  THEN ReplyKinds ELSE LateReplyKinds}) :
        kbuf' = kbuf \o text
    /\ unanswered' = Tail(unanswered)
    /\ UNCHANGED <<pc, conn, closes, client, newErr, werr, rbuf, negWrites,
                   negRead, frameWrites, lateIO, ncalls, call>>
    /\ UNCHANGED deadline
    /\ UNCHANGED codecVars

\* The error sendRequest returns: the text of fmt.Errorf's format and the value
\* formatted into it.
Failure(branch, prefix, detail) ==
    [branch |-> branch, payload |-> <<>>, err |-> <<prefix, detail>>]

\* sendRequest, to its read: the frame is built, handed to WriteString and
\* flushed.  rnd is what rand.Read did, w what the
\* Conn did with the flushed text.
\* [call, werr, accepted: the Conn took the whole frame, rid, wrote: the Conn was written]
sendRequestWrite(c, code, payload, rnd, w, we) ==
    IF ~rnd.ok
    THEN [call |-> [c EXCEPT !.done = TRUE,
                             !.res = Failure("frame", "failed to create frame: ", "rand")],
          werr |-> we, accepted |-> FALSE, rid |-> <<>>, wrote |-> FALSE]
    ELSE
        LET f == newFrame(code, payload, rnd.bytes)
        IN  IF we
            \* the writer kept an earlier error: WriteString returns it
            THEN [call |-> [c EXCEPT !.frames = c.frames + 1, !.done = TRUE,
                                     !.res = Failure("send", "failed to send frame: ", "write")],
                  werr |-> we, accepted |-> FALSE, rid |-> <<>>, wrote |-> FALSE]
            ELSE IF ~w.ok
            THEN [call |-> [c EXCEPT !.frames = c.frames + 1, !.flushes = c.flushes + 1,
                                     !.sent = w.written, !.done = TRUE,
                                     !.res = Failure("flush", "failed to flush frame: ", "write")],
                  werr |-> TRUE, accepted |-> FALSE, rid |-> <<>>, wrote |-> TRUE]
            ELSE [call |-> [c EXCEPT !.frames = c.frames + 1, !.flushes = c.flushes + 1,
                                     !.sent = w.written],
                  werr |-> we, accepted |-> TRUE, rid |-> f.RequestID, wrote |-> TRUE]

\* A classification that compares the response's Code without regard to case.
sendRequestResultAnyCase(line) ==
    LET parsed == ParseFrame(line)
    IN  IF parsed.err # "nil"
        THEN [branch |-> "parse", payload |-> <<>>,
              err |-> <<"failed to parse response: ", parsed.err>>]
        ELSE IF ToUpper(parsed.frame.Code) # SuccessCode
        THEN [branch |-> "code", payload |-> <<>>,
              err |-> <<"request failed with code: ", parsed.frame.Code>>]
        ELSE [branch |-> "ok", payload |-> parsed.frame.Payload, err |-> <<>>]

\* sendRequest, after its read returned line: ParseFrame and the comparison of
\* the response's Code with "SUCCESS".
sendRequestResult(line) ==
    LET parsed == ParseFrame(line)
    IN  IF parsed.err # "nil"
        THEN Failure("parse", "failed to parse response: ", parsed.err)
        ELSE IF parsed.frame.Code # SuccessCode
        THEN Failure("code", "request failed with code: ", parsed.frame.Code)
        ELSE [branch |-> "ok", payload |-> parsed.frame.Payload, err |-> <<>>]

\* A call that, when the response does not parse, reads once more.
sendRequestReadAgain(c, r) ==
    LET res == IF r.ok THEN sendRequestResult(r.line)
               ELSE Failure("read", "failed to read response: ", "read")
    IN  [c EXCEPT !.reads = IF res.branch = "parse" THEN c.reads + 2 ELSE c.reads + 1,
                  !.line = r.line,
                  !.done = TRUE,
                  !.res = res]

\* Where a call stands after ReadString returned r.
sendRequestRead(c, r) ==
    [c EXCEPT !.reads = c.reads + 1,
              !.line = r.line,
              !.done = TRUE,
              !.res = IF r.ok THEN sendRequestResult(r.line)
                      ELSE Failure("read", "failed to read response: ", "read")]

\* MetadataClientImpl.sendRequest(code, payload), until it returns or waits
\* for the response.
sendRequest(op, key, value, code, payload) ==
    /\ pc = "ready"
    /\ ncalls < MaxCalls
    /\ ncalls' = ncalls + 1
    /\ \E rnd \in RandOutcomes :
       \E w \in WriteOutcomes(IF rnd.ok THEN Encode(newFrame(code, payload, rnd.bytes)) ELSE <<>>) :
        LET c0 == [NoCall EXCEPT !.op = op, !.key = key, !.value = value,
                                 !.prev = call.res.branch]
            s == sendRequestWrite(c0, code, payload, rnd, w, werr)
        IN  /\ call' = s.call
            /\ werr' = s.werr
            /\ lateIO' = (lateIO \/ (s.wrote /\ conn # "open"))
            /\ frameWrites' = IF s.accepted THEN frameWrites + 1 ELSE frameWrites
            /\ unanswered' = IF s.accepted
                              THEN Append(unanswered, [neg |-> FALSE, rid |-> s.rid])
                              ELSE unanswered
            /\ pc' = IF s.call.done THEN "ready" ELSE "await"
    /\ UNCHANGED <<conn, closes, client, newErr, rbuf, kbuf, negWrites, negRead>>
    /\ UNCHANGED deadline
    /\ UNCHANGED codecVars

\* MetadataClientImpl.sendRequest from its ReadString on.
Receive ==
    /\ pc = "await"
    /\ LET r == ReadString(rbuf, Fetchable(kbuf, deadline))
       IN  /\ rbuf' = r.rbuf
           /\ kbuf' = LeftInConn(kbuf, r, deadline)
           /\ deadline' = DeadlineAfter(deadline, r)
           /\ lateIO' = (lateIO \/ (r.fetched /\ conn # "open"))
           /\ call' = sendRequestRead(call, r)
    /\ pc' = "ready"
    /\ UNCHANGED <<conn, closes, client, newErr, werr, unanswered, negWrites,
                   negRead, frameWrites, ncalls>>
    /\ UNCHANGED codecVars

\* MetadataClientImpl.Get
Get == \E key \in KeyInputs : sendRequest("Get", key, <<>>, GetCode, key)

\* MetadataClientImpl.Keys
Keys == sendRequest("Keys", <<>>, <<>>, KeysCode, <<>>)

\* MetadataClientImpl.Delete
Delete == \E key \in KeyInputs : sendRequest("Delete", key, <<>>, DeleteCode, key)

\* A guard that matches the namespace's name only, not the keys in it.
IsReservedExact(key) == key = ReservedPrefix

\* Put's guard: the key is in the read-only namespace.
IsReserved(key) == HasPrefix(key, ReservedPrefix)

\* A payload text that joins key and value as they are.
PutPayloadPlain(key, value) == key \o <<SP>> \o value

\* The payload text of a PUT: base64(key) + " " + base64(value).
PutPayload(key, value) == B64Encode(key) \o <<SP>> \o B64Encode(value)

\* MetadataClientImpl.Put
Put ==
    \E key \in KeyInputs, value \in ValueInputs :
        IF IsReserved(key)
        THEN /\ pc = "ready"
             /\ ncalls < MaxCalls
             /\ ncalls' = ncalls + 1
             /\ call' = [NoCall EXCEPT
                            !.op = "Put", !.key = key, !.value = value,
                            !.prev = call.res.branch, !.done = TRUE,
                            !.res = Failure("policy",
                                "cannot update keys in the read-only sdc: namespace", "")]
             /\ UNCHANGED <<pc, conn, closes, client, newErr, werr, rbuf, kbuf,
                            unanswered, negWrites, negRead, frameWrites, lateIO, deadline>>
             /\ UNCHANGED codecVars
        ELSE sendRequest("Put", key, value, PutCode, PutPayload(key, value))

\* Time goes by on a client that is not in a call: the instant the read
\* deadline was set to, Timeout after the dial, is reached.
DeadlinePasses ==
    /\ pc = "ready"
    /\ conn = "open"
    /\ deadline = "armed"
    /\ deadline' = "passed"
    /\ UNCHANGED <<pc, conn, closes, client, newErr, werr, rbuf, kbuf, unanswered,
                   negWrites, negRead, frameWrites, lateIO, ncalls, call>>
    /\ UNCHANGED codecVars

\* MetadataClientImpl.Close, as the caller's deferred call runs it when the
\* caller returns.
Close ==
    /\ pc = "ready"
    /\ ConnClose
    /\ pc' = "done"
    /\ UNCHANGED <<client, newErr, werr, rbuf, kbuf, unanswered, negWrites,
                   negRead, frameWrites, lateIO, ncalls, call>>
    /\ UNCHANGED deadline
    /\ UNCHANGED codecVars

\* ------------------------------------------------------------------ peer lines

\* The text of a wire line with the given prefix, length field, checksum field
\* and body.
LineOf(prefix, length, checksum, body) ==
    prefix \o length \o <<SP>> \o checksum \o <<SP>> \o body \o <<NL>>

\* Base64 text that decodes to the same bytes as text and is not what
\* EncodeToString gives for them: the bits of the last character that the
\* padded group does not use are set.  Text without padding is left as it is.
SetUnusedBits(text) ==
    IF Len(text) >= 4 /\ text[Len(text)] = PAD
    THEN LET i == IF text[Len(text) - 1] = PAD THEN Len(text) - 2 ELSE Len(text) - 1
         IN  [text EXCEPT ![i] = B64Alphabet[B64Value(text[i]) + 2]]
    ELSE text

\* The ways a line handed to ParseFrame may differ from the line Encode gave.
WireKinds ==
    {"noprefix", "lowerprefix", "gluedprefix", "nofields", "onefield", "twofields",
     "lengthjunk", "lengthempty", "lengthalpha", "lengthsigned",
     "extrafield", "trailingspace", "unusedbits",
     "lowercode", "shortrid", "upperrid", "wordrid"}

\* The line of each kind made from frame f (built from code and payload).
WireLine(kind, f, code) ==
    LET length == SprintfD(f.BodyLength)
        body == buildBodyString(f)
        good == Encode(f)
        rest == SubSeq(good, Len(ProtocolPrefix) + 1, Len(good))
    IN  CASE kind = "noprefix" -> rest
          [] kind = "lowerprefix" -> <<118, 50, 32>> \o rest
          [] kind = "gluedprefix" -> <<86, 50>> \o rest
          [] kind = "nofields" -> ProtocolPrefix \o <<NL>>
          [] kind = "onefield" -> ProtocolPrefix \o length \o <<NL>>
          [] kind = "twofields" -> ProtocolPrefix \o length \o <<SP>> \o f.BodyChecksum \o <<NL>>
          [] kind = "lengthjunk" ->
                LineOf(ProtocolPrefix, length \o <<97, 98, 99>>, f.BodyChecksum, body)
          [] kind = "lengthempty" -> LineOf(ProtocolPrefix, <<>>, f.BodyChecksum, body)
          [] kind = "lengthalpha" -> LineOf(ProtocolPrefix, <<120>> \o length, f.BodyChecksum, body)
          [] kind = "lengthsigned" -> LineOf(ProtocolPrefix, <<PLUS>> \o length, f.BodyChecksum, body)
          [] kind = "extrafield" ->
                LineOf(ProtocolPrefix, length, f.BodyChecksum, body \o <<SP, 106, 117, 110, 107>>)
          [] kind = "trailingspace" ->
                LineOf(ProtocolPrefix, length, f.BodyChecksum, body \o <<SP>>)
          [] kind = "unusedbits" ->
                LineOf(ProtocolPrefix, length, f.BodyChecksum,
                       Join(IF Len(f.Payload) > 0
                            THEN <<f.RequestID, f.Code, SetUnusedBits(B64Encode(f.Payload))>>
                            ELSE <<f.RequestID, f.Code>>, SP))
          [] kind = "lowercode" -> ResponseLine(f.RequestID, code, f.Payload)
          [] kind = "shortrid" -> ResponseLine(<<90, 90>>, f.Code, f.Payload)
          [] kind = "upperrid" -> ResponseLine(ToUpper(f.RequestID), f.Code, f.Payload)
          [] kind = "wordrid" -> ResponseLine(<<110, 111, 116, 45, 97, 110, 45, 105, 100>>,
                                              f.Code, f.Payload)

\* ParseFrame on a line a peer may send in place of the encoded one
CodecDecodeWire ==
    /\ cStage = "encoded"
    /\ \E kind \in WireKinds :
        /\ cKind' = kind
        /\ cLine' = WireLine(kind, cFrame, cIn.code)
        /\ cRes' = ParseFrame(cLine')
    /\ cStage' = "wire"
    /\ UNCHANGED <<cIn, cFrame>>
    /\ UNCHANGED clientVars

\* ------------------------------------------------------------------ specifications

\* The client, its caller and the peer; the codec variables stand still.
Init ==
    /\ ClientInit
    /\ cStage = "idle"
    /\ cIn = NoInput
    /\ cFrame = NoFrame
    /\ cLine = <<>>
    /\ cRes = NoParse
    /\ cKind = "none"

Next ==
    \/ Open
    \/ NegotiateSend
    \/ NegotiateRecv
    \/ PeerReply
    \/ Get
    \/ Keys
    \/ Delete
    \/ Put
    \/ Receive
    \/ DeadlinePasses
    \/ Close

Spec == Init /\ [][Next]_vars

\* The frame codec on drawn inputs; the client variables stand still.
InitCodec ==
    /\ CodecInit
    /\ pc = "idle"
    /\ conn = "none"
    /\ closes = 0
    /\ client = "none"
    /\ newErr = "none"
    /\ werr = FALSE
    /\ rbuf = <<>>
    /\ kbuf = <<>>
    /\ unanswered = <<>>
    /\ negWrites = 0
    /\ negRead = <<>>
    /\ frameWrites = 0
    /\ lateIO = FALSE
    /\ ncalls = 0
    /\ deadline = "none"
    /\ call = NoCall

NextCodec ==
    \/ CodecConstruct
    \/ CodecEncode
    \/ CodecDecode
    \/ CodecDecodeFlipped
    \/ CodecDecodeWire

SpecCodec == InitCodec /\ [][NextCodec]_vars

\* ------------------------------------------------------------------ claims

\* The number of times byte c stands in s.
RECURSIVE CountByte(_, _)
CountByte(s, c) ==
    IF Len(s) = 0 THEN 0
    ELSE (IF s[1] = c THEN 1 ELSE 0) + CountByte(Tail(s), c)

\* C1: round trip.  For every code without space or newline and every
\* payload, the empty one included, ParseFrame(Encode(newFrame(code, payload)))
\* succeeds and returns a frame with the Code, Payload, RequestID, BodyLength
\* and BodyChecksum of the frame that was encoded.
C1_RoundTrip ==
    (cStage = "decoded" /\ CountByte(cIn.code, SP) = 0 /\ CountByte(cIn.code, NL) = 0) =>
        /\ cRes.err = "nil"
        /\ cRes.frame.Code = cFrame.Code
        /\ cRes.frame.Payload = cFrame.Payload
        /\ cRes.frame.RequestID = cFrame.RequestID
        /\ cRes.frame.BodyLength = cFrame.BodyLength
        /\ cRes.frame.BodyChecksum = cFrame.BodyChecksum

\* A frame with a lower-case code and a payload holding a newline went round.
C1_Witness ==
    /\ cStage = "decoded"
    /\ cIn.code = <<112>>
    /\ cIn.payload = <<65, NL>>
    /\ cRes.err = "nil"
    /\ cRes.frame.Payload = <<65, NL>>

\* C2 (as claimed): no wire line whose body has had one character replaced by
\* a different one is accepted by ParseFrame.
C2_NoFlippedLineAccepted == cStage = "flipped" => cRes.err # "nil"

\* C3: every request frame written to the Conn comes after exactly one write
\* of "NEGOTIATE V2\n" and a read of the line "V2_OK\n"; the negotiation
\* request is written at most once per Conn.
C3_NegotiatedBeforeRequests ==
    /\ negWrites <= 1
    /\ (frameWrites > 0 \/ call.frames > 0 \/ call.sent # <<>> \/ pc = "await") =>
        /\ negWrites = 1
        /\ negRead = NegotiationResp

\* Two request frames were written after one negotiation.
C3_Witness == frameWrites = 2 /\ negWrites = 1 /\ negRead = NegotiationResp

\* C4: negotiation exactness.  NewMetadataClient has a client exactly when the
\* line Negotiate read is byte-identical to "V2_OK\n"; after any other line
\* read, no client is constructed.
C4_NegotiationExact ==
    /\ (client = "ok") <=> (negRead = NegotiationResp)
    /\ (negRead # <<>> /\ negRead # NegotiationResp) => client = "err"

\* The peer answered "V2_OK\r\n" and no client was constructed.
C4_Witness == negRead = <<86, 50, 95, 79, 75, 13, 10>> /\ client = "err"

NegotiationErrors ==
    {"protocol negotiation failed: failed to flush negotiation",
     "protocol negotiation failed: failed to read negotiation response",
     "server does not support Version 2 protocol"}

\* C5: when negotiation fails in NewMetadataClient (the reply is not the
\* expected literal, or the handshake write, flush or read fails), the Conn is
\* closed exactly once, an error and no client are returned, and nothing more
\* is written to or read from the Conn.
C5_NegotiationFailureCloses ==
    newErr \in NegotiationErrors =>
        /\ conn = "closed"
        /\ closes = 1
        /\ client = "err"
        /\ pc = "done"
        /\ ~lateIO
        /\ frameWrites = 0
        /\ ncalls = 0
        /\ call = NoCall

\* The peer answered "NOPE\n": construction failed and the Conn is closed.
C5_Witness ==
    /\ newErr = "server does not support Version 2 protocol"
    /\ negRead = <<78, 79, 80, 69, 10>>
    /\ conn = "closed"
    /\ closes = 1

\* A line as ReadString returns it without error: one newline, at its end.
IsLine(text) == Len(text) > 0 /\ IndexByte(text, NL) = Len(text)

\* The call is one that goes through sendRequest (every call but a Put to a
\* reserved key).
IsRequestCall(c) == c.op # "none" /\ ~(c.op = "Put" /\ HasPrefix(c.key, ReservedPrefix))

\* C6 (as claimed): every call of Get, Keys, Delete, or Put outside sdc:
\* writes exactly one frame, flushes once and reads exactly one
\* newline-terminated line, whatever the outcome.
C6_ExactlyOneRoundTrip ==
    (call.done /\ IsRequestCall(call)) =>
        /\ call.frames = 1
        /\ call.flushes = 1
        /\ call.reads = 1
        /\ IsLine(call.line)

\* C6 (amended): a call writes at most one frame, flushes at most once and
\* reads at most once, the read only after the flush that the Conn accepted;
\* a call that ends in success, a parse error or a non-SUCCESS code has written
\* exactly one frame, flushed once and read exactly one newline-terminated
\* line; a call that ends in a frame-construction or transport error has read
\* no complete line.
C6_AtMostOneRoundTrip ==
    /\ call.frames <= 1 /\ call.flushes <= 1 /\ call.reads <= 1
    /\ call.flushes <= call.frames
    /\ call.reads <= call.flushes
    /\ pc = "await" => (call.frames = 1 /\ call.flushes = 1 /\ call.reads = 0 /\ ~call.done)
    /\ (call.done /\ IsRequestCall(call)) =>
        IF call.res.branch \in {"ok", "parse", "code"}
        THEN /\ call.frames = 1
             /\ call.flushes = 1
             /\ call.reads = 1
             /\ IsLine(call.line)
             /\ ParseFrame(call.sent).err = "nil"
        ELSE /\ call.res.branch \in {"frame", "send", "flush", "read"}
             /\ ~IsLine(call.line)
             /\ call.res.branch = "read" <=> call.reads = 1
             /\ call.res.branch = "frame" <=> call.frames = 0

\* A call whose response did not parse: one frame, one flush, one line read.
C6_Witness ==
    /\ call.done
    /\ call.op = "Get"
    /\ call.res.branch = "parse"
    /\ call.frames = 1 /\ call.flushes = 1 /\ call.reads = 1

\* ERROR_NOTFOUND of cmd/main.go
ERROR_NOTFOUND == <<"request failed with code: ", NotFoundCode>>

\* C7: result classification.  sendRequest returns the decoded payload without
\* error exactly when the response line decodes and its Code is "SUCCESS";
\* for any other decoded Code X it returns no payload and the error
\* "request failed with code: X", a text no transport error and no parse error
\* has.
C7_ResultClassification ==
    (call.done /\ IsRequestCall(call)) =>
        LET parsed == ParseFrame(call.line)
            decoded == call.reads = 1 /\ IsLine(call.line) /\ parsed.err = "nil"
        IN  /\ (call.res.branch = "ok") <=> (decoded /\ parsed.frame.Code = SuccessCode)
            /\ call.res.branch = "ok" =>
                (call.res.payload = parsed.frame.Payload /\ call.res.err = <<>>)
            /\ (decoded /\ parsed.frame.Code # SuccessCode) =>
                /\ call.res.branch = "code"
                /\ call.res.payload = <<>>
                /\ call.res.err = <<"request failed with code: ", parsed.frame.Code>>
            /\ call.res.branch \in {"frame", "send", "flush", "read", "parse"} =>
                /\ call.res.payload = <<>>
                /\ call.res.err[1] # "request failed with code: "
                /\ call.res.err # ERROR_NOTFOUND

\* A NOTFOUND response gave the error cmd/main.go compares with.
C7_Witness ==
    /\ call.done
    /\ call.res.branch = "code"
    /\ call.res.err = ERROR_NOTFOUND

\* C8: namespace guard.  Put with a key that starts with "sdc:" returns the
\* policy error having written and read nothing, and leaves the Conn and the
\* buffers as they were; Put with any other key goes on to send a PUT frame.
C8_NamespaceGuard ==
    /\ [](call.op = "Put" =>
            IF HasPrefix(call.key, ReservedPrefix)
            THEN /\ call.done
                 /\ call.res.branch = "policy"
                 /\ call.frames = 0 /\ call.flushes = 0 /\ call.reads = 0
                 /\ call.sent = <<>>
            ELSE /\ call.res.branch # "policy"
                 /\ call.frames = 1 \/ call.res.branch = "frame"
                 /\ call.flushes = 1 =>
                        \E rnd \in RandInputs :
                            /\ HasPrefix(Encode(newFrame(PutCode,
                                    PutPayload(call.key, call.value), rnd)), call.sent)
                            /\ (call.res.branch # "flush" =>
                                    ParseFrame(call.sent).frame.Code = PutCode))
    /\ [][(ncalls' = ncalls + 1 /\ call'.op = "Put" /\ HasPrefix(call'.key, ReservedPrefix)) =>
            UNCHANGED <<pc, conn, closes, client, werr, rbuf, kbuf, unanswered, negWrites,
                        frameWrites, lateIO>>]_vars

\* A Put to "sdc:x" was refused on a client that had already made a request.
C8_Witness ==
    /\ call.op = "Put"
    /\ call.key = <<115, 100, 99, 58, 120>>
    /\ call.res.branch = "policy"
    /\ ncalls = 2
    /\ frameWrites = 1

\* C9: a response that does not parse (a wrong checksum, or otherwise
\* malformed) does not corrupt the client.  The failed call consumed exactly
\* that one line: what else had arrived stays buffered, the writer keeps no
\* error and the Conn stays open.  The next call on the client is not refused
\* by the writer, reads the next line of the stream and returns that line's
\* result, and Close then closes the Conn.
C9_ParseFailureKeepsClientUsable ==
    /\ []((call.done /\ call.res.branch = "parse") =>
            /\ IsLine(call.line)
            /\ call.reads = 1
            /\ ~werr
            /\ pc = "ready" => conn = "open")
    /\ [][(pc = "await" /\ call'.res.branch = "parse") =>
            /\ rbuf \o kbuf = call'.line \o rbuf' \o kbuf'
            /\ UNCHANGED <<conn, werr, closes>>]_vars
    /\ [][(call'.prev = "parse" /\ ncalls' = ncalls + 1 /\ IsRequestCall(call')) =>
            /\ call'.res.branch # "send"
            /\ call'.frames = 1 \/ call'.res.branch = "frame"]_vars
    /\ [][(pc = "await" /\ call.prev = "parse" /\ call'.done
                /\ call'.res.branch # "read") =>
            /\ IsLine(call'.line)
            /\ rbuf \o kbuf = call'.line \o rbuf' \o kbuf'
            /\ LET parsed == ParseFrame(call'.line)
               IN  IF parsed.err = "nil" /\ parsed.frame.Code = SuccessCode
                   THEN call'.res.branch = "ok" /\ call'.res.payload = parsed.frame.Payload
                   ELSE call'.res.branch \in {"parse", "code"}]_vars
    /\ [][(pc = "ready" /\ call.res.branch = "parse" /\ pc' = "done") =>
            (conn' = "closed" /\ closes' = 1)]_vars

\* After a call that failed on a wrong checksum, the next call returned the
\* payload of the next line, and another line had been left buffered meanwhile.
C9_Witness ==
    /\ call.done
    /\ call.prev = "parse"
    /\ call.res.branch = "ok"
    /\ call.res.payload = <<65>>
    /\ conn = "open"

\* C10: every Conn NewMetadataClient opened is closed exactly once on every
\* path: when setting the read timeout fails, when negotiation fails, and when
\* the caller's deferred Close runs after its calls, failed or not; nothing is
\* read from or written to a Conn that is not open.
C10_ClosedExactlyOnce ==
    /\ closes <= 1
    /\ (conn = "closed") <=> (closes = 1)
    /\ ~lateIO
    /\ pc = "done" =>
        \/ conn = "closed" /\ closes = 1
        \/ conn = "none" /\ newErr \in {"failed to open serial port", "failed to dial"}
    /\ newErr = "failed to set read timeout" => (conn = "closed" /\ closes = 1)
    /\ newErr \in NegotiationErrors => (conn = "closed" /\ closes = 1)
    /\ (pc # "done" /\ client = "ok") => (conn = "open" /\ closes = 0)

\* The caller returned after a call that failed, and the Conn was closed once.
C10_Witness ==
    /\ pc = "done"
    /\ client = "ok"
    /\ ncalls = 1
    /\ call.res.branch = "code"
    /\ conn = "closed"
    /\ closes = 1

\* The line handed to ParseFrame starts with "V2 ", in that case.
StartsWithV2(line) == Len(line) >= 3 /\ line[1] = 86 /\ line[2] = 50 /\ line[3] = SP

\* The number of space-separated fields after the prefix of a line that has it.
FieldsAfterPrefix(line) ==
    LET last == IF line[Len(line)] = NL THEN Len(line) - 1 ELSE Len(line)
    IN  CountByte(SubSeq(line, 4, last), SP) + 1

\* C11: prefix/format rejection precedence.  A line that does not start with
\* "V2 " (case-sensitive) is rejected with the prefix error, and a line with
\* fewer than 3 space-separated fields after the prefix with the format error;
\* neither is ever rejected with the checksum-mismatch error, or accepted,
\* whatever the remaining fields hold.
C11_PrefixFormatFirst ==
    cStage \in {"decoded", "flipped", "wire"} =>
        /\ ~StartsWithV2(cLine) => cRes.err = "invalid frame prefix"
        /\ (StartsWithV2(cLine) /\ FieldsAfterPrefix(cLine) < 3) =>
                cRes.err = "invalid frame format"
        /\ cRes.err = "checksum mismatch" =>
                (StartsWithV2(cLine) /\ FieldsAfterPrefix(cLine) >= 3)

\* A line "v2 ..." whose fields are those of a good frame was rejected for its
\* prefix.
C11_Witness ==
    /\ cStage = "wire"
    /\ cKind = "lowerprefix"
    /\ cRes.err = "invalid frame prefix"
    /\ Len(cIn.payload) > 0

\* The fields of a wire line, the prefix and the final newline left out.
WireFields(line) == Split(SubSeq(line, 4, Len(line) - 1), SP)

\* C12: Put wire encoding.  A Put with a key outside "sdc:" hands the writer
\* at most one frame; the frame the Conn accepted has Code PUT and the payload
\* text base64(key) + " " + base64(value), so that its payload field on the
\* wire is the base64 of that text; decoding the field and splitting the result
\* at its single space gives two parts that decode to key and value.
C12_PutWireEncoding ==
    (call.op = "Put" /\ call.res.branch # "policy") =>
        /\ call.frames <= 1
        /\ (call.flushes = 1 /\ call.res.branch # "flush") =>
            LET parsed == ParseFrame(call.sent)
                fields == WireFields(call.sent)
                text == B64Decode(fields[5])
                parts == Split(text.bytes, SP)
            IN  /\ IsLine(call.sent)
                /\ parsed.err = "nil"
                /\ parsed.frame.Code = <<80, 85, 84>>
                /\ Len(fields) = 5
                /\ fields[4] = <<80, 85, 84>>
                /\ text.ok
                /\ text.bytes = parsed.frame.Payload
                /\ text.bytes = B64Encode(call.key) \o <<SP>> \o B64Encode(call.value)
                /\ CountByte(text.bytes, SP) = 1
                /\ Len(parts) = 2
                /\ B64Decode(parts[1]) = [ok |-> TRUE, bytes |-> call.key]
                /\ B64Decode(parts[2]) = [ok |-> TRUE, bytes |-> call.value]

\* Put("k", "a b") was written, and the peer answered SUCCESS.
C12_Witness ==
    /\ call.op = "Put"
    /\ call.key = <<107>>
    /\ call.value = <<97, 32, 98>>
    /\ call.frames = 1
    /\ call.res.branch = "ok"
    /\ WireFields(call.sent)[4] = <<80, 85, 84>>

\* C13 (as claimed): for every frame newFrame builds from any code and any
\* payload bytes, Encode returns text that ends with one "\n" and holds no
\* other newline.
C13_AlwaysOneLine == cStage = "encoded" => IsLine(cLine)

\* C13 (amended): for every frame newFrame builds from a code that holds no
\* newline and from any payload bytes (newlines and spaces included), Encode
\* returns text that ends with one "\n" and holds no other newline.
C13_OneLineForCodesWithoutNewline ==
    (cStage = "encoded" /\ CountByte(cIn.code, NL) = 0) =>
        /\ Len(cLine) > 0
        /\ cLine[Len(cLine)] = NL
        /\ CountByte(cLine, NL) = 1

\* A frame whose payload is "\nA\n" was encoded as one line.
C13_Witness ==
    /\ cStage = "encoded"
    /\ cIn.payload = <<NL, 65, NL>>
    /\ cIn.code = <<112, 71>>
    /\ cLine[Len(cLine)] = NL
    /\ CountByte(cLine, NL) = 1

\* C14 (as claimed): every frame the program holds has an upper-case Code: the
\* frame newFrame built, and every frame ParseFrame returned without error.
C14_CodeAlwaysUpper ==
    /\ cStage # "input" => cFrame.Code = ToUpper(cFrame.Code)
    /\ (cStage \in {"decoded", "flipped", "wire"} /\ cRes.err = "nil") =>
            cRes.frame.Code = ToUpper(cRes.frame.Code)

\* Eight characters, each one of "0123456789abcdef".
IsLowerHex8(text) ==
    /\ Len(text) = 8
    /\ \A i \in 1..Len(text) : IsDigit(text[i]) \/ (text[i] >= 97 /\ text[i] <= 102)

\* C15 (as claimed): the RequestID of every frame the program holds is exactly
\* 8 lower-case hexadecimal characters: in the frame newFrame built, and in
\* every frame ParseFrame returned without error.
C15_RequestIDAlwaysHex8 ==
    /\ cStage # "input" => IsLowerHex8(cFrame.RequestID)
    /\ (cStage \in {"decoded", "flipped", "wire"} /\ cRes.err = "nil") =>
            IsLowerHex8(cRes.frame.RequestID)

\* A decimal integer and nothing else: an optional sign and one or more digits.
IsDecimalInteger(text) ==
    LET digits == IF Len(text) > 0 /\ (text[1] = PLUS \/ text[1] = MINUS)
                  THEN Tail(text) ELSE text
    IN  /\ Len(digits) > 0
        /\ \A i \in 1..Len(digits) : IsDigit(digits[i])

\* C16 (as claimed): ParseFrame fails whenever the BodyLength field is not a
\* valid decimal integer: no line whose first field after the prefix is not
\* entirely an integer is accepted, whether or not its checksum matches.
C16_NonIntegerLengthRejected ==
    (cStage \in {"decoded", "flipped", "wire"} /\ StartsWithV2(cLine)
        /\ ~IsDecimalInteger(WireFields(cLine)[1])) =>
            cRes.err # "nil"

\* The part of C16 that the code keeps: an empty length field, and one that
\* starts with a letter, are rejected with the body-length error.
C16_EmptyOrAlphaLengthRejected ==
    (cStage = "wire" /\ cKind \in {"lengthempty", "lengthalpha"}) =>
        cRes.err = "invalid body length"

\* The body text of a line as received: what stands between the space after
\* the checksum field and the final newline.
ReceivedBody(line) ==
    LET fields == WireFields(line)
    IN  SubSeq(line, 4 + Len(fields[1]) + 1 + Len(fields[2]) + 1, Len(line) - 1)

\* C17 (as claimed): ParseFrame accepts a line only if its checksum field is
\* the CRC-32 of the body text received; a line with extra fields after the
\* payload, with a trailing space, or with payload text that is not the
\* canonical base64 of its bytes is not accepted.
C17_ChecksumCoversReceivedBody ==
    (cStage \in {"decoded", "flipped", "wire"} /\ cRes.err = "nil") =>
        Sprintf08x(Checksum(ReceivedBody(cLine))) = WireFields(cLine)[2]

\* C18 (as claimed): a call that returns success returns the payload of the
\* response the peer produced for that call's own request: the response line it
\* read carries the RequestID of the frame the call wrote.
C18_ResponseIsForOwnRequest ==
    (call.done /\ call.res.branch = "ok") =>
        ParseFrame(call.line).frame.RequestID = ParseFrame(call.sent).frame.RequestID

\* C19 (as claimed): a request fails with a read timeout only if the peer has
\* not delivered a response line: whenever a call's read fails, no complete
\* line was there to be read, buffered or waiting in the Conn.
C19_TimeoutOnlyWithoutResponse ==
    [][(pc = "await" /\ call'.done /\ call'.res.branch = "read") =>
            IndexByte(rbuf \o kbuf, NL) = 0]_vars

====
